---- MODULE Spec2Model ----
(***************************************************************************)
(* Model of the transfer-sol Blink route handlers (GET, OPTIONS, POST) of  *)
(* blinks-starter.  The repository holds four copies of the route:         *)
(*   "route_ts"    src/app/api/transfer-sol/route.ts                       *)
(*   "route_tsx_a" src/app/api/transfer-sol/route.tsx, lines 1-125         *)
(*   "route_tsx_b" src/app/api/transfer-sol/route.tsx, lines 127-290       *)
(*   "part_000"    the copy with the verifyTransferInstruction helper      *)
(* A deployment runs one of them; the model picks it in Init.              *)
(***************************************************************************)
EXTENDS Integers, Sequences, FiniteSets, TLC

VARIABLES variant, encodesNegative, pc, req, frame, thrown, bhCalls, blockhash,
          postResp, respCount, served, gets, optResp, prepared

vars == <<variant, encodesNegative, pc, req, frame, thrown, bhCalls, blockhash,
          postResp, respCount, served, gets, optResp, prepared>>

\* Number of POST requests one run of the model serves.
MaxServed == 2

Variants == {"route_ts", "route_tsx_a", "route_tsx_b", "part_000"}

\* The copies of route.tsx, which test `!receiver || !amount`.
TsxVariants == {"route_tsx_a", "route_tsx_b"}

\* searchParams.get() of an absent parameter (null) / an absent body field
\* (undefined).
NULL == "<absent>"

LAMPORTS_PER_SOL == 1000000000

\* createActionHeaders(): one header set, built once, shared by all handlers.
headers == "createActionHeaders()"

----------------------------------------------------------------------------
(* Inputs *)

\* base58 strings that decode to 32 bytes
Base58Keys == {"Key1", "Key2"}

ReceiverInputs == {NULL, "", "not-a-key"} \cup Base58Keys

AccountInputs == {NULL, "not-a-key", "Key1"}

\* the `amount` query parameter, as a sequence of characters
AmountInputs ==
  { <<NULL>>,
    <<>>,
    <<"a", "b", "c">>,
    <<"0">>,
    <<"1">>,
    <<"2">>,
    <<"-", "1">>,
    <<"0", ".", "5">>,
    <<"0", ".", "0", "0", "0", "0", "0", "0", "0", "0", "0", "1">> }

\* the request body: not JSON at all, or a JSON object with or without account
BodyInputs ==
  {[json |-> FALSE, account |-> NULL]} \cup
  {[json |-> TRUE, account |-> a] : a \in AccountInputs}

Requests == [receiver : ReceiverInputs, amount : AmountInputs, body : BodyInputs]

Blockhashes == {"bh1", "bh2"}

NoRequest == [receiver |-> NULL, amount |-> <<NULL>>,
              body |-> [json |-> FALSE, account |-> NULL]]

----------------------------------------------------------------------------
(* JavaScript and SDK primitives the handlers call *)

\* !value for a string or null/undefined
Falsy(s) == s = NULL \/ s = ""

Digits == {"0", "1", "2", "3", "4", "5", "6", "7", "8", "9"}

DigitVal(c) ==
  CASE c = "0" -> 0 [] c = "1" -> 1 [] c = "2" -> 2 [] c = "3" -> 3
    [] c = "4" -> 4 [] c = "5" -> 5 [] c = "6" -> 6 [] c = "7" -> 7
    [] c = "8" -> 8 [] c = "9" -> 9

RECURSIVE DigitsValue(_)
DigitsValue(s) ==
  IF s = <<>> THEN 0
  ELSE 10 * DigitsValue(SubSeq(s, 1, Len(s) - 1)) + DigitVal(s[Len(s)])

AllDigits(s) == \A i \in 1..Len(s) : s[i] \in Digits

NaN == [nan |-> TRUE, neg |-> FALSE, mant |-> 0, dec |-> 0]

\* a finite number: (-1)^neg * mant * 10^(-dec)
Num(neg, mant, dec) == [nan |-> FALSE, neg |-> neg, mant |-> mant, dec |-> dec]

\* position of the decimal point, 0 when there is none
DotAt(s) == IF \E i \in 1..Len(s) : s[i] = "."
            THEN CHOOSE i \in 1..Len(s) : s[i] = "." /\ \A j \in 1..(i-1) : s[j] # "."
            ELSE 0

\* Number() of an unsigned decimal literal: digits [. digits]
UnsignedNumber(s, neg) ==
  LET d == DotAt(s) IN
  IF d = 0
  THEN IF s # <<>> /\ AllDigits(s) THEN Num(neg, DigitsValue(s), 0) ELSE NaN
  ELSE LET ip == SubSeq(s, 1, d - 1)
           fp == SubSeq(s, d + 1, Len(s))
       IN IF AllDigits(ip) /\ AllDigits(fp) /\ Len(ip) + Len(fp) > 0
          THEN Num(neg, DigitsValue(ip \o fp), Len(fp))
          ELSE NaN

\* Number(v): null and "" convert to 0, a decimal literal to its value,
\* any other string of the inputs to NaN.
Number(s) ==
  IF s = <<NULL>> \/ s = <<>> THEN Num(FALSE, 0, 0)
  ELSE IF s[1] = "-" THEN UnsignedNumber(Tail(s), TRUE)
  ELSE UnsignedNumber(s, FALSE)

\* an amount test that also turns negative numbers away (amount <= 0)
NonPositiveNumber(n) == n.nan \/ n.mant = 0 \/ n.neg

\* !amount for a number: 0 and NaN are falsy
FalsyNumber(n) == n.nan \/ n.mant = 0

\* !amountString for searchParams.get("amount")
FalsyAmountString(s) == s = <<NULL>> \/ s = <<>>

RECURSIVE Pow10(_)
Pow10(k) == IF k = 0 THEN 1 ELSE 10 * Pow10(k - 1)

\* amount * LAMPORTS_PER_SOL: NaN stays NaN; otherwise an integer count of
\* lamports or a non-integer number.
Lamports(amount) ==
  IF amount.nan THEN [nan |-> TRUE, int |-> FALSE, val |-> 0]
  ELSE IF amount.dec <= 9
       THEN [nan |-> FALSE, int |-> TRUE,
             val |-> (IF amount.neg THEN -1 ELSE 1) * amount.mant
                     * (LAMPORTS_PER_SOL \div Pow10(amount.dec))]
       ELSE LET p == Pow10(amount.dec - 9) IN
            IF amount.mant % p = 0
            THEN [nan |-> FALSE, int |-> TRUE,
                  val |-> (IF amount.neg THEN -1 ELSE 1) * (amount.mant \div p)]
            ELSE [nan |-> FALSE, int |-> FALSE, val |-> 0]

\* new PublicKey(value) throws for null/undefined and for a string that is
\* not the base58 encoding of 32 bytes.
PublicKeyThrows(value) == value \notin Base58Keys

\* SystemProgram.transfer({fromPubkey, toPubkey, lamports}) converts lamports
\* with BigInt(), which throws for NaN and non-integers; whether a negative
\* count encodes into the unsigned 64-bit field depends on the SDK build.
TransferThrows(lamports, negOk) ==
  lamports.nan \/ ~lamports.int \/ (lamports.val < 0 /\ ~negOk)

----------------------------------------------------------------------------
(* Responses *)

Resp(status, body) == [status |-> status, headers |-> headers, body |-> body]

\* new Response(null, ...): no body
EmptyBody == [empty |-> TRUE]

NoResp == [status |-> 0, headers |-> "", body |-> EmptyBody]

\* the catch block of POST
ErrorResponse == Resp(500, [error |-> "Internal server error"])

\* `return new Response(null, { status: 400, headers })` of route.tsx
BadRequestResponse == Resp(400, EmptyBody)

----------------------------------------------------------------------------
(* POST: validation *)

Params(receiver, amount, payer) ==
  [ok |-> TRUE, step |-> "none", receiver |-> receiver, amount |-> amount,
   payer |-> payer]

\* an exception, named after the statement that raised it
Failure(step) ==
  [ok |-> FALSE, step |-> step, receiver |-> NULL, amount |-> NaN, payer |-> NULL]

\* extractParameters handing the raw receiver string on, unparsed
extractParametersRawReceiver(r) ==
  IF ~r.body.json THEN Failure("req.json()")
  ELSE IF PublicKeyThrows(r.body.account) THEN Failure("new PublicKey(account)")
  ELSE Params(r.receiver, Number(r.amount), r.body.account)

\* The inlined parameter extraction of route.ts and route.tsx:
\* new PublicKey(receiver!), Number(amount), await req.json(),
\* new PublicKey(request.account), in this order.
extractParameters(r) ==
  IF PublicKeyThrows(r.receiver) THEN Failure("new PublicKey(receiver)")
  ELSE IF ~r.body.json THEN Failure("req.json()")
  ELSE IF PublicKeyThrows(r.body.account) THEN Failure("new PublicKey(account)")
  ELSE Params(r.receiver, Number(r.amount), r.body.account)

\* The helper of part_000: every throw inside it is turned into a rejection,
\* which POST's `await` rethrows.
verifyTransferInstruction(r) ==
  IF ~r.body.json THEN Failure("req.json()")
  ELSE IF Falsy(r.receiver) THEN Failure("Receiver address is required")
  ELSE IF FalsyAmountString(r.amount) THEN Failure("Amount is required")
  ELSE IF Falsy(r.body.account) THEN Failure("Payer account is required")
  ELSE IF PublicKeyThrows(r.receiver) THEN Failure("new PublicKey(receiver)")
  ELSE IF PublicKeyThrows(r.body.account) THEN Failure("new PublicKey(account)")
  ELSE Params(r.receiver, Number(r.amount), r.body.account)

----------------------------------------------------------------------------
(* POST: transaction construction *)

\* TransferInstruction without the scaling by LAMPORTS_PER_SOL
TransferInstructionUnscaled(payer, receiver, amount) ==
  [programId |-> "SystemProgram", type |-> "transfer",
   fromPubkey |-> payer, toPubkey |-> receiver,
   lamports |-> amount.mant]

\* SystemProgram.transfer(...) as called by prepareTransaction
TransferInstruction(payer, receiver, amount) ==
  [programId |-> "SystemProgram", type |-> "transfer",
   fromPubkey |-> payer, toPubkey |-> receiver,
   lamports |-> Lamports(amount).val]

\* prepareTransaction after the blockhash arrived:
\* new TransactionMessage({...}).compileToV0Message(), new VersionedTransaction
VersionedTransaction(f, recentBlockhash) ==
  [version |-> 0, payerKey |-> f.payer, recentBlockhash |-> recentBlockhash,
   instructions |-> <<f.instruction>>]

RECURSIVE SerializeInstructions(_)
SerializeInstructions(ixs) ==
  IF ixs = <<>> THEN <<>>
  ELSE <<ixs[1].programId, ixs[1].type, ixs[1].fromPubkey, ixs[1].toPubkey,
         ixs[1].lamports>> \o SerializeInstructions(Tail(ixs))

\* transaction.serialize(): the wire form, field after field
Serialize(tx) ==
  <<tx.version, tx.payerKey, tx.recentBlockhash, Len(tx.instructions)>>
    \o SerializeInstructions(tx.instructions)

\* Buffer.from(bytes).toString("base64")
Base64(bytes) == [encoding |-> "base64", data |-> bytes]

\* the ActionPostResponse of a built transaction
TransactionResponse(tx) ==
  Resp(200, [type |-> "transaction", transaction |-> Base64(Serialize(tx))])

NoFrame == [payer |-> NULL,
            instruction |-> TransferInstruction(NULL, NULL, Num(FALSE, 0, 0))]

----------------------------------------------------------------------------
(* POST: the handler up to its await of connection.getLatestBlockhash() *)

\* prepareTransaction was not called / was called with this amount
NotPrepared == [called |-> FALSE, amount |-> NaN]

PreparedWith(amount) == [called |-> TRUE, amount |-> amount]

Respond(resp, step) ==
  [kind |-> "response", resp |-> resp, thrown |-> step, frame |-> NoFrame,
   prepared |-> NotPrepared]

Await(payer, instruction) ==
  [kind |-> "await", resp |-> NoResp, thrown |-> "none",
   frame |-> [payer |-> payer, instruction |-> instruction],
   prepared |-> NotPrepared]

\* a catch block that answers a rejected fetch with a status of its own
CatchByCause(step) ==
  IF step = "connection.getLatestBlockhash"
  THEN Respond(Resp(503, [error |-> "Internal server error"]), step)
  ELSE Respond(ErrorResponse, step)

\* the catch block maps whatever was thrown to the same response
Catch(step) == Respond(ErrorResponse, step)

\* prepareTransaction up to the await: the instruction is built first
prepareTransaction(p, negOk) ==
  LET o == IF TransferThrows(Lamports(p.amount), negOk)
           THEN Catch("SystemProgram.transfer")
           ELSE Await(p.payer, TransferInstruction(p.payer, p.receiver, p.amount))
  IN [o EXCEPT !.prepared = PreparedWith(p.amount)]

\* POST without the `!receiver || !amount` test of route.tsx
POSTWithoutAmountTest(v, r, negOk) ==
  LET p == IF v = "part_000" THEN verifyTransferInstruction(r)
           ELSE extractParameters(r)
  IN IF ~p.ok THEN Catch(p.step) ELSE prepareTransaction(p, negOk)

POST(v, r, negOk) ==
  LET p == IF v = "part_000" THEN verifyTransferInstruction(r)
           ELSE extractParameters(r)
  IN IF ~p.ok THEN Catch(p.step)
     ELSE IF v \in TsxVariants /\ FalsyNumber(p.amount)
          THEN Respond(BadRequestResponse, "none")
          ELSE prepareTransaction(p, negOk)

----------------------------------------------------------------------------
(* GET and OPTIONS *)

\* request URLs: scheme, host, path, query
Hosts == {"localhost:3000", "example.com", "blinks.example"}

Url(scheme, host, path, query) ==
  [scheme |-> scheme, host |-> host, path |-> path, query |-> query]

RequestUrls ==
  {Url("http", "localhost:3000", "/api/transfer-sol", ""),
   Url("https", "example.com", "/api/transfer-sol", ""),
   Url("https", "blinks.example", "/api/transfer-sol", ""),
   Url("https", "example.com", "/api/transfer-sol", "?cluster=devnet")}

\* new URL(path, base) for an absolute path: the base's scheme and host,
\* the given path, no query
NewURL(path, base) == Url(base.scheme, base.host, path, "")

\* URL.prototype.toString(), as the sequence of its parts
UrlToString(u) == <<u.scheme, "://", u.host, u.path, u.query>>

\* the icon of the document
Icon(v, url) ==
  IF v = "route_tsx_a"
  THEN <<"http", "://", "localhost:3000", "/transfer-sol.png", "">>
  ELSE UrlToString(NewURL("/transfer-sol.png", url))

Title(v) ==
  IF v = "route_tsx_a" THEN "Send SOL to a friend" ELSE "Send SOL with a Blink"

Description(v) ==
  IF v = "route_tsx_a" THEN "Send SOL to a friend using their public key."
  ELSE "This Blink demonstrates how to send SOL on the Solana blockchain. ..."

\* the href template, as the sequence of its parts
Href == <<"/api/transfer-sol?receiver=", "{receiver}", "&amount=", "{amount}">>

\* Parameters with the amount left optional
ParametersOptionalAmount ==
  << [type |-> "text", label |-> "Recipient Public Key", name |-> "receiver",
      required |-> TRUE],
     [type |-> "number", label |-> "Amount", name |-> "amount",
      required |-> FALSE] >>

Parameters ==
  << [type |-> "text", label |-> "Recipient Public Key", name |-> "receiver",
      required |-> TRUE],
     [type |-> "number", label |-> "Amount", name |-> "amount",
      required |-> TRUE] >>

\* the ActionGetResponse
ActionGetResponse(v, url) ==
  [type |-> "action",
   icon |-> Icon(v, url),
   label |-> "Send SOL",
   title |-> Title(v),
   description |-> Description(v),
   links |-> [actions |-> << [type |-> "transaction", label |-> "Send SOL",
                              href |-> Href, parameters |-> Parameters] >>]]

GET(v, url) == Resp(200, ActionGetResponse(v, url))

\* OPTIONS answering without the shared headers
OPTIONSWithoutHeaders == [status |-> 200, headers |-> "", body |-> EmptyBody]

\* new Response(null, { headers }): the status defaults to 200
OPTIONS == Resp(200, EmptyBody)

----------------------------------------------------------------------------
(* The server *)

Init ==
  /\ variant \in Variants
  /\ encodesNegative \in BOOLEAN
  /\ pc = "idle"
  /\ req = NoRequest
  /\ frame = NoFrame
  /\ thrown = "none"
  /\ bhCalls = 0
  /\ blockhash = NULL
  /\ postResp = NoResp
  /\ respCount = 0
  /\ served = 0
  /\ gets = <<>>
  /\ optResp = NoResp
  /\ prepared = NotPrepared

\* A POST request arrives; the handler runs until it responds or awaits
\* connection.getLatestBlockhash().
PostReceive(r) ==
  /\ pc = "idle"
  /\ served < MaxServed
  /\ LET o == POST(variant, r, encodesNegative) IN
       /\ req' = r
       /\ thrown' = o.thrown
       /\ frame' = o.frame
       /\ prepared' = o.prepared
       /\ IF o.kind = "response"
          THEN /\ pc' = "done"
               /\ postResp' = o.resp
               /\ respCount' = respCount + 1
               /\ bhCalls' = bhCalls
          ELSE /\ pc' = "fetching"
               /\ postResp' = postResp
               /\ respCount' = respCount
               /\ bhCalls' = bhCalls + 1
  /\ UNCHANGED <<variant, encodesNegative, blockhash, served, gets, optResp>>

\* getLatestBlockhash() resolves: the message is compiled, serialized and
\* returned.
BlockhashOk(h) ==
  /\ pc = "fetching"
  /\ blockhash' = h
  /\ postResp' = TransactionResponse(VersionedTransaction(frame, h))
  /\ respCount' = respCount + 1
  /\ pc' = "done"
  /\ UNCHANGED <<variant, encodesNegative, req, frame, thrown, bhCalls, served,
                 gets, optResp,
                 prepared>>

\* BlockhashFail retrying the fetch instead of answering
BlockhashFailRetry ==
  /\ pc = "fetching"
  /\ bhCalls <= MaxServed
  /\ bhCalls' = bhCalls + 1
  /\ UNCHANGED <<variant, encodesNegative, pc, req, frame, thrown, blockhash,
                 postResp, respCount, served, gets, optResp,
                 prepared>>

\* getLatestBlockhash() rejects: the catch block answers.
BlockhashFail ==
  /\ pc = "fetching"
  /\ LET o == Catch("connection.getLatestBlockhash") IN
       /\ postResp' = o.resp
       /\ thrown' = o.thrown
  /\ respCount' = respCount + 1
  /\ pc' = "done"
  /\ UNCHANGED <<variant, encodesNegative, req, frame, bhCalls, blockhash, served,
                 gets, optResp,
                 prepared>>

\* The request is over; nothing of it is kept.
NextRequest ==
  /\ pc = "done"
  /\ pc' = "idle"
  /\ served' = served + 1
  /\ req' = NoRequest
  /\ frame' = NoFrame
  /\ thrown' = "none"
  /\ bhCalls' = 0
  /\ blockhash' = NULL
  /\ postResp' = NoResp
  /\ respCount' = 0
  /\ prepared' = NotPrepared
  /\ UNCHANGED <<variant, encodesNegative, gets, optResp>>

\* A GET request is answered; the model keeps the last two answers.
Get(url) ==
  /\ gets' = <<[url |-> url, resp |-> GET(variant, url)]>>
               \o (IF gets = <<>> THEN <<>> ELSE <<gets[1]>>)
  /\ UNCHANGED <<variant, encodesNegative, pc, req, frame, thrown, bhCalls,
                 blockhash, postResp, respCount, served, optResp,
                 prepared>>

\* An OPTIONS request is answered.
Options ==
  /\ optResp' = OPTIONS
  /\ UNCHANGED <<variant, encodesNegative, pc, req, frame, thrown, bhCalls,
                 blockhash, postResp, respCount, served, gets,
                 prepared>>

Next ==
  \/ \E r \in Requests : PostReceive(r)
  \/ \E h \in Blockhashes : BlockhashOk(h)
  \/ BlockhashFail
  \/ NextRequest
  \/ \E u \in RequestUrls : Get(u)
  \/ Options

Spec == Init /\ [][Next]_vars

TypeOK ==
  /\ variant \in Variants
  /\ pc \in {"idle", "fetching", "done"}
  /\ req \in Requests \cup {NoRequest}
  /\ bhCalls \in 0..1
  /\ respCount \in 0..1
  /\ served \in 0..MaxServed
  /\ Len(gets) <= 2

----------------------------------------------------------------------------
(* What the properties speak of, stated on the request itself *)

ReceiverWellFormed == req.receiver \in Base58Keys

PayerWellFormed == req.body.json /\ req.body.account \in Base58Keys

\* amounts that are present and are decimal numbers
NumericAmounts ==
  { <<"0">>, <<"1">>, <<"2">>, <<"-", "1">>, <<"0", ".", "5">>,
    <<"0", ".", "0", "0", "0", "0", "0", "0", "0", "0", "0", "1">> }

AmountWellFormed == req.amount \in NumericAmounts

\* amounts above zero that are a whole number of lamports, with that number
WholeLamportAmounts == { <<"1">>, <<"2">>, <<"0", ".", "5">> }

ExpectedLamports(a) ==
  CASE a = <<"1">> -> 1000000000
    [] a = <<"2">> -> 2000000000
    [] a = <<"0", ".", "5">> -> 500000000

PositiveAmounts ==
  WholeLamportAmounts \cup
    { <<"0", ".", "0", "0", "0", "0", "0", "0", "0", "0", "0", "1">> }

\* amounts that convert to 0 or to NaN
ZeroOrNaNAmounts == { <<NULL>>, <<>>, <<"a", "b", "c">>, <<"0">> }

MissingField ==
  req.receiver = NULL \/ req.amount = <<NULL>> \/ req.body.account = NULL

Answered == pc = "done"

\* the response carries the transaction the request asked for
CompleteEnvelope(payer, receiver, lamports, recent) ==
  /\ postResp.status = 200
  /\ postResp.headers = headers
  /\ DOMAIN postResp.body = {"type", "transaction"}
  /\ postResp.body.type = "transaction"
  /\ postResp.body.transaction.encoding = "base64"
  /\ LET d == postResp.body.transaction.data IN
       /\ Len(d) = 9
       /\ d[2] = payer
       /\ d[3] = recent
       /\ d[4] = 1
       /\ d[5] = "SystemProgram"
       /\ d[6] = "transfer"
       /\ d[7] = payer
       /\ d[8] = receiver
       /\ d[9] = lamports

----------------------------------------------------------------------------
(* Properties *)

\* C1: getLatestBlockhash is called only for requests whose receiver, amount
\* and payer are all present and well-formed; a request lacking one of them
\* ends in a failure response without the call.
C1_FetchOnlyWhenWellFormed ==
  /\ bhCalls > 0 => ReceiverWellFormed /\ AmountWellFormed /\ PayerWellFormed
  /\ (Answered /\ ~(ReceiverWellFormed /\ AmountWellFormed /\ PayerWellFormed))
       => postResp.status # 200 /\ bhCalls = 0

\* C2: with receiver and payer valid, a missing or non-numeric amount never
\* gets a status-200 transaction envelope.
C2_BadAmountNever200 ==
  (Answered /\ ReceiverWellFormed /\ PayerWellFormed
     /\ req.amount \in { <<NULL>>, <<"a", "b", "c">> })
    => postResp.status # 200

\* C3: a missing or malformed receiver, or a missing account field, never
\* gets a status-200 response, whatever the other inputs are.
C3_BadReceiverOrNoAccountNever200 ==
  (pc # "idle" /\ (~ReceiverWellFormed \/ req.body.account = NULL))
    => /\ postResp.status # 200
       /\ pc = "done"
       /\ bhCalls = 0

C3_Witness ==
  /\ Answered
  /\ ReceiverWellFormed
  /\ req.body.json /\ req.body.account = NULL
  /\ req.amount = <<"1">>
  /\ postResp.status = 500

C5_EveryExceptionIs500 ==
  thrown # "none" => Answered /\ respCount = 1 /\ postResp = ErrorResponse

C5_Witness ==
  /\ thrown = "connection.getLatestBlockhash"
  /\ postResp = ErrorResponse

\* C6: a request is answered exactly once and fetches the blockhash at most
\* once; a 200 carries a complete envelope and comes only after the one fetch
\* succeeded; any other answer has no transaction field.
C6_OneResponseOneFetch ==
  /\ bhCalls <= 1
  /\ respCount <= 1
  /\ Answered <=> respCount = 1
  /\ postResp.status = 200
       => /\ bhCalls = 1 /\ blockhash # NULL
          /\ CompleteEnvelope(frame.payer, frame.instruction.toPubkey,
                              frame.instruction.lamports, blockhash)
  /\ (Answered /\ postResp.status # 200)
       => "transaction" \notin DOMAIN postResp.body
  /\ thrown = "connection.getLatestBlockhash" => Answered /\ bhCalls = 1

C6_Witness ==
  /\ Answered
  /\ thrown = "connection.getLatestBlockhash"
  /\ bhCalls = 1
  /\ respCount = 1

\* C7: every GET answer is status 200 with one action, whose parameters are
\* `receiver` then `amount`, both required, and whose href holds both
\* placeholders.
C7_MetadataShape ==
  \A i \in 1..Len(gets) :
    LET r == gets[i].resp IN
      /\ r.status = 200
      /\ Len(r.body.links.actions) = 1
      /\ LET a == r.body.links.actions[1] IN
           /\ Len(a.parameters) = 2
           /\ a.parameters[1].name = "receiver"
           /\ a.parameters[2].name = "amount"
           /\ a.parameters[1].required = TRUE
           /\ a.parameters[2].required = TRUE
           /\ \E k \in 1..Len(a.href) : a.href[k] = "{receiver}"
           /\ \E k \in 1..Len(a.href) : a.href[k] = "{amount}"

C7_Witness ==
  /\ Len(gets) = 2
  /\ gets[1].url.query # ""
  /\ gets[2].url.host = "localhost:3000"

DiffersOnlyInHost(u1, u2) ==
  /\ u1.host # u2.host
  /\ [u1 EXCEPT !.host = ""] = [u2 EXCEPT !.host = ""]

\* C8: GET of the same URL twice gives the same JSON; GET of two URLs that
\* differ only in host gives JSON that differs only in the icon, whose host is
\* the host of the request's own URL.
C8_MetadataIdempotentIconHost ==
  \A i, j \in 1..Len(gets) :
    /\ gets[i].url = gets[j].url => gets[i].resp = gets[j].resp
    /\ DiffersOnlyInHost(gets[i].url, gets[j].url)
         => /\ [gets[i].resp.body EXCEPT !.icon = <<>>]
                 = [gets[j].resp.body EXCEPT !.icon = <<>>]
            /\ gets[i].resp.body.icon[3] = gets[i].url.host

\* C9: every OPTIONS answer is status 200 or 204 with an empty body and the
\* header set of the GET and POST answers, whatever else the server has
\* handled or is handling.
C9_PreflightFixed ==
  optResp # NoResp
    => /\ optResp.status \in {200, 204}
       /\ optResp.body = EmptyBody
       /\ optResp.headers = headers
       /\ \A i \in 1..Len(gets) : gets[i].resp.headers = optResp.headers
       /\ Answered => postResp.headers = optResp.headers

C9_Witness ==
  /\ optResp # NoResp
  /\ pc = "fetching"
  /\ Len(gets) > 0
  /\ served > 0

\* C10 as stated: a failure is the 500 or the empty 400; the 400 comes from
\* the variant with the validation helper, for a missing field, and the
\* variants with inlined validation answer a missing field with the 500.
C10_BadRequestFromHelperVariant ==
  /\ (Answered /\ postResp.status # 200)
       => postResp \in {ErrorResponse, BadRequestResponse}
  /\ postResp = BadRequestResponse => variant = "part_000" /\ MissingField
  /\ (Answered /\ variant # "part_000" /\ MissingField)
       => postResp = ErrorResponse

\* C10: a failure is the 500 or the empty 400; the 400 comes only from the
\* copies of route.tsx, exactly when receiver and payer parse and the amount
\* converts to 0 or NaN; the variant with the validation helper answers every
\* missing field with the 500.
C10_BadRequestFromTsxVariants ==
  /\ (Answered /\ postResp.status # 200)
       => postResp \in {ErrorResponse, BadRequestResponse}
  /\ Answered =>
       (postResp = BadRequestResponse
          <=> /\ variant \in TsxVariants
              /\ ReceiverWellFormed /\ PayerWellFormed
              /\ req.amount \in ZeroOrNaNAmounts)
  /\ (Answered /\ variant = "part_000" /\ MissingField)
       => postResp = ErrorResponse

C10_Witness ==
  /\ Answered
  /\ variant = "route_tsx_b"
  /\ req.amount = <<NULL>>
  /\ postResp = BadRequestResponse

\* C11 as stated: in every variant a request with valid receiver and payer
\* whose amount parses to zero or to a negative number passes validation and
\* prepareTransaction is called with that amount.
C11_ZeroAndNegativeReachConstruction ==
  (pc # "idle" /\ ReceiverWellFormed /\ PayerWellFormed
     /\ req.amount \in { <<"0">>, <<"-", "1">> })
    => prepared.called

\* C11: with valid receiver and payer, a negative amount passes validation in
\* every variant and prepareTransaction is called with it; an amount of zero
\* does so in route.ts and in the copy with the validation helper, while the
\* copies of route.tsx answer it with the empty 400 and never call
\* prepareTransaction.
C11_NegativeReachesConstructionZeroByVariant ==
  (pc # "idle" /\ ReceiverWellFormed /\ PayerWellFormed)
    => /\ req.amount = <<"-", "1">>
            => prepared = [called |-> TRUE, amount |-> Num(TRUE, 1, 0)]
       /\ (req.amount = <<"0">> /\ variant \notin TsxVariants)
            => prepared = [called |-> TRUE, amount |-> Num(FALSE, 0, 0)]
       /\ (req.amount = <<"0">> /\ variant \in TsxVariants)
            => /\ ~prepared.called
               /\ postResp = BadRequestResponse
               /\ bhCalls = 0

C11_Witness ==
  /\ variant = "route_tsx_a"
  /\ ReceiverWellFormed /\ PayerWellFormed
  /\ req.amount = <<"-", "1">>
  /\ prepared.called /\ prepared.amount.neg

====
